---- MODULE Spec2Model ----
(***************************************************************************)
(* Model of the facial-recognition session guard:                          *)
(*   src/src/main.rs      capture / decision loop, recognize_face          *)
(*   src/src/monitor.rs   DatabaseMonitor, refresh task, status endpoint   *)
(*   src/src/database.rs  FaceDatabase (JSON registry)                     *)
(*   src/src/face_recognition.rs  compare_faces                            *)
(***************************************************************************)
EXTENDS Integers, Sequences, FiniteSets, TLC

(***************************************************************************)
(* Bounds of the model.                                                    *)
(***************************************************************************)
\* longest list of regions the detector returns for one frame
MaxFaces == 2
\* number of distinct face records the operator can register
NumRecords == 3
\* number of concurrently served status requests
NumHandlers == 1
\* largest modification time of a file in the database directory
MaxMtime == 2
\* operator commands that can run at the same time
NumClis == 2
\* longest feature vector handed to compare_faces
MaxLen == 2
\* largest side of an image handed to the skin-tone detector
MaxSide == 40

(***************************************************************************)
(* Values.                                                                 *)
(***************************************************************************)
\* Option::None of RecognitionResponse.name
NoName == "None"
\* the literal main.rs stores in the decision on a match
AuthorizedUser == "Authorized User"
\* no task holds the write side of a lock
NoTask == "none"

Handlers == 1..NumHandlers
RecordIds == 1..NumRecords

\* Histograms the featurizer can produce for a detected region, as
\* un-normalised bin counts.  The L2 normalisation of extract_features scales
\* a histogram by a positive factor, which leaves the cosine of compare_faces
\* unchanged.
Histograms == {<<0, 1>>, <<1, 1>>}

\* A detected region: extract_features either fails on it or yields hist.
BadRegion == [ok |-> FALSE, hist |-> <<0, 0>>]
Regions == {BadRegion} \cup {[ok |-> TRUE, hist |-> h] : h \in Histograms}

\* FaceRecord (database.rs): id, name, photo_path, created_at.  Ids are
\* handed out in registration order, and so are the creation times.
NameOf(id) == CASE id % 3 = 1 -> "Alice"
                [] id % 3 = 2 -> "Bob"
                [] OTHER      -> "Carol"
FaceRecord(id) == [id |-> id, name |-> NameOf(id), photo_path |-> id,
                   created_at |-> id]

\* Histogram of the reference photo stored under a photo_path.
HistOf(path) == IF path % 2 = 1 THEN <<2, 1>> ELSE <<1, 1>>

\* What the file system holds under each photo_path when recognize_face
\* looks: a decodable image, a file imread cannot decode, or no file.
PhotoStates == {"ok", "missing", "corrupt"}

\* Files that can appear in the database directory, with their extension.
FileNames == {"a.jpg", "b.JPEG", "c.jpg", "notes.txt"}
extension(name) == CASE name = "a.jpg"  -> "jpg"
                     [] name = "b.JPEG" -> "JPEG"
                     [] name = "c.jpg"  -> "jpg"
                     [] OTHER           -> "txt"
to_lowercase(ext) == IF ext = "JPEG" THEN "jpeg" ELSE ext
Mtimes == 1..MaxMtime

(***************************************************************************)
(* face_recognition.rs: compare_faces.  A similarity s stands for the      *)
(* number s.dot / (sqrt(s.norm1) * sqrt(s.norm2)).                         *)
(***************************************************************************)
RECURSIVE SumProd(_, _, _)
SumProd(a, b, i) == IF i > Len(a) THEN 0 ELSE a[i] * b[i] + SumProd(a, b, i + 1)

ZeroSimilarity == [dot |-> 0, norm1 |-> 1, norm2 |-> 1]

\* compare_faces without the test for a zero magnitude
compare_faces_NoZeroTest(features1, features2) ==
    IF Len(features1) # Len(features2) THEN ZeroSimilarity
    ELSE [dot |-> SumProd(features1, features2, 1),
          norm1 |-> SumProd(features1, features1, 1),
          norm2 |-> SumProd(features2, features2, 1)]

compare_faces(features1, features2) ==
    IF Len(features1) # Len(features2) THEN ZeroSimilarity
    ELSE LET dot_product == SumProd(features1, features2, 1)
             norm1 == SumProd(features1, features1, 1)
             norm2 == SumProd(features2, features2, 1)
         IN  IF norm1 = 0 \/ norm2 = 0 THEN ZeroSimilarity
             ELSE [dot |-> dot_product, norm1 |-> norm1, norm2 |-> norm2]

\* a comparison against 0.8 instead
AboveThreshold_Strict(s) == s.dot > 0 /\ 100 * s.dot * s.dot > 64 * s.norm1 * s.norm2

\* similarity > 0.7  (main.rs:187), squared to stay in the integers
AboveThreshold(s) == s.dot > 0 /\ 100 * s.dot * s.dot > 49 * s.norm1 * s.norm2

\* s > t for two non-negative similarities
Higher(s, t) == s.dot * s.dot * t.norm1 * t.norm2 > t.dot * t.dot * s.norm1 * s.norm2

(***************************************************************************)
(* main.rs: recognize_face.  faces is the detector's list of regions,      *)
(* authorized_faces the records of the snapshot, disk the state of the     *)
(* reference photos.  The result carries what the call returns (res:       *)
(* "true", "false", or "err" for an Err propagated by `?`), the pair the   *)
(* "Match found with" line is printed for, which call failed, and the      *)
(* work done on the way.                                                   *)
(***************************************************************************)
NoPair == <<0, 0>>
NoWork == [extracted |-> <<>>, probed |-> <<>>, compared |-> <<>>]
Outcome(res, matched, error, work) ==
    [res |-> res, matched |-> matched, error |-> error,
     extracted |-> work.extracted, probed |-> work.probed,
     compared |-> work.compared]

RECURSIVE CompareFrom(_, _, _, _, _, _)
\* the two nested loops of recognize_face, resumed at region i, record j;
\* j = 0 stands for the top of the outer loop body (main.rs:168-171).
\* work.extracted: regions whose features were extracted; work.probed: each
\* (region, record) pair reached, with what Path::exists / imread found;
\* work.compared: the pairs handed to compare_faces.
CompareFrom(faces_, authorized_faces, disk, i, j, work) ==
    IF i > Len(faces_) THEN Outcome("false", NoPair, "none", work)
    ELSE IF j = 0 THEN
        IF ~faces_[i].ok THEN Outcome("err", NoPair, "region", work)
        ELSE CompareFrom(faces_, authorized_faces, disk, i, 1,
                         [work EXCEPT !.extracted = Append(@, i)])
    ELSE IF j > Len(authorized_faces) THEN
        CompareFrom(faces_, authorized_faces, disk, i + 1, 0, work)
    ELSE LET record == authorized_faces[j]
             state == disk[record.photo_path]
             didProbe == [work EXCEPT !.probed = Append(@, <<i, j, state>>)]
             didCompare == [didProbe EXCEPT !.compared = Append(@, <<i, j>>)]
             similarity == compare_faces(faces_[i].hist, HistOf(record.photo_path))
         IN  IF state = "missing" THEN
                 CompareFrom(faces_, authorized_faces, disk, i, j + 1, didProbe)
             ELSE IF state = "corrupt" THEN Outcome("err", NoPair, "photo", didProbe)
             ELSE IF AboveThreshold(similarity) THEN
                 Outcome("true", <<i, j>>, "none", didCompare)
             ELSE CompareFrom(faces_, authorized_faces, disk, i, j + 1, didCompare)

\* recognize_face without the early return for an empty registry
recognize_face_NoEmptyTest(faces_, authorized_faces, disk) ==
    CompareFrom(faces_, authorized_faces, disk, 1, 0, NoWork)

\* recognize_face failing when a reference photo of the registry is missing
recognize_face_MissingIsError(faces_, authorized_faces, disk) ==
    IF authorized_faces = <<>> THEN Outcome("false", NoPair, "none", NoWork)
    ELSE IF \E k \in 1..Len(authorized_faces) :
                disk[authorized_faces[k].photo_path] = "missing"
    THEN Outcome("err", NoPair, "photo", NoWork)
    ELSE CompareFrom(faces_, authorized_faces, disk, 1, 0, NoWork)

recognize_face(faces_, authorized_faces, disk) ==
    IF authorized_faces = <<>> THEN Outcome("false", NoPair, "none", NoWork)
    ELSE CompareFrom(faces_, authorized_faces, disk, 1, 0, NoWork)

\* what is left of a call once it has returned: its result and the record
\* its "Match found with" line names
Returned(outcome) == Outcome(outcome.res, outcome.matched, outcome.error, NoWork)

(***************************************************************************)
(* database.rs: FaceDatabase over database/face_records.json.  The file    *)
(* is [exists, data], data the JSON text as its sequence of tokens: per    *)
(* record "{", the four fields as text in the order of the struct, "}".    *)
(* The files of the model are written by save only, so they parse.         *)
(***************************************************************************)
NoFile == [exists |-> FALSE, data |-> <<>>]

RECURSIVE to_string_pretty(_)
RECURSIVE from_str(_)

\* serde_json::to_string_pretty(&self.records)  (database.rs:124)
to_string_pretty(records) ==
    IF records = <<>> THEN <<>>
    ELSE LET r == Head(records)
         IN  <<"{", ToString(r.id), r.name, ToString(r.photo_path),
               ToString(r.created_at), "}">> \o to_string_pretty(Tail(records))

\* the number a field's text stands for
ParseNumber(text) == CHOOSE n \in 0..(NumRecords + 1) : ToString(n) = text

\* serde_json::from_str::<Vec<FaceRecord>>(&data)  (database.rs:83)
from_str(data) ==
    IF data = <<>> THEN <<>>
    ELSE <<[id |-> ParseNumber(data[2]), name |-> data[3],
            photo_path |-> ParseNumber(data[4]),
            created_at |-> ParseNumber(data[5])]>>
             \o from_str(SubSeq(data, 7, Len(data)))

\* FaceDatabase::new: the loaded records (a missing file is an empty list)
FaceDatabase_new(file) == IF file.exists THEN from_str(file.data) ELSE <<>>

\* FaceDatabase::save: the file after a successful write
FaceDatabase_save(records) == [exists |-> TRUE, data |-> to_string_pretty(records)]

\* add_record putting the new record in front of the others
add_record_Prepends(records, record, file, write_ok) ==
    LET pushed == <<record>> \o records
    IN  [records |-> pushed,
         file |-> IF write_ok THEN FaceDatabase_save(pushed) ELSE file,
         ok |-> write_ok]

\* FaceDatabase::add_record: push, then save; write_ok tells whether
\* fs::write succeeds.  The object, the file and the returned Result.
add_record(records, record, file, write_ok) ==
    LET pushed == Append(records, record)
    IN  [records |-> pushed,
         file |-> IF write_ok THEN FaceDatabase_save(pushed) ELSE file,
         ok |-> write_ok]

\* records.retain(|record| record.id != *id)  (bin/cli.rs:117)
retain(records, id) == SelectSeq(records, LAMBDA record : record.id # id)

\* the Remove command with save always called, whether or not a record went
remove_AlwaysSaves(records, id, file, write_ok) ==
    LET kept == retain(records, id)
    IN  [records |-> kept,
         file |-> IF write_ok THEN FaceDatabase_save(kept) ELSE file,
         ok |-> write_ok,
         save_called |-> TRUE,
         report |-> IF ~write_ok THEN ""
                    ELSE IF Len(kept) < Len(records) THEN "Successfully removed"
                    ELSE "No face found"]

\* bin/cli.rs:115-124 on the loaded registry: retain, save only when a
\* record went, and the line printed ("" when save()? returns the error)
remove(records, id, file, write_ok) ==
    LET kept == retain(records, id)
    IN  IF Len(kept) < Len(records)
        THEN [records |-> kept,
              file |-> IF write_ok THEN FaceDatabase_save(kept) ELSE file,
              ok |-> write_ok,
              save_called |-> TRUE,
              report |-> IF write_ok THEN "Successfully removed" ELSE ""]
        ELSE [records |-> kept, file |-> file, ok |-> TRUE,
              save_called |-> FALSE, report |-> "No face found"]

IdsOf(records) == {records[k].id : k \in 1..Len(records)}

\* the states the photos of a list of records can be in
DisksFor(records) ==
    [{records[k].photo_path : k \in 1..Len(records)} -> PhotoStates]

(***************************************************************************)
(* monitor.rs: DatabaseMonitor::scan_database.  d is the database          *)
(* directory ([exists, files: name -> modified]), fault the I/O call that  *)
(* fails during this scan ("none" when all succeed).                       *)
(***************************************************************************)
Faults == {"none", "create_dir", "read_dir", "entry", "metadata"}
NoFiles == [n \in {} |-> 0]

IsPhoto(name) == LET ext == to_lowercase(extension(name))
                 IN  ext = "jpg" \/ ext = "jpeg"

ScanResult(ok, photo_files, added, removed, d) ==
    [ok |-> ok, photo_files |-> photo_files, added |-> added,
     removed |-> removed, dir |-> d]

\* a scan that empties the stored listing before it enumerates
scan_database_ClearsFirst(photo_files, d, fault) ==
    IF ~d.exists THEN
        IF fault = "create_dir" THEN ScanResult(FALSE, photo_files, {}, {}, d)
        ELSE ScanResult(TRUE, photo_files, {}, {},
                        [exists |-> TRUE, files |-> NoFiles])
    ELSE LET photos == {n \in DOMAIN d.files : IsPhoto(n)}
             current_files == [n \in photos |-> d.files[n]]
             failed == \/ fault = "read_dir"
                       \/ fault = "entry" /\ DOMAIN d.files # {}
                       \/ fault = "metadata" /\ photos # {}
         IN  IF failed THEN ScanResult(FALSE, NoFiles, {}, {}, d)
             ELSE ScanResult(TRUE, current_files,
                             {n \in photos : n \notin DOMAIN photo_files},
                             {n \in DOMAIN photo_files : n \notin photos}, d)

\* a scan that keeps the files it no longer finds in the stored listing
scan_database_KeepsGone(photo_files, d, fault) ==
    IF ~d.exists THEN
        IF fault = "create_dir" THEN ScanResult(FALSE, photo_files, {}, {}, d)
        ELSE ScanResult(TRUE, photo_files, {}, {},
                        [exists |-> TRUE, files |-> NoFiles])
    ELSE LET photos == {n \in DOMAIN d.files : IsPhoto(n)}
             current_files == [n \in photos |-> d.files[n]]
             failed == \/ fault = "read_dir"
                       \/ fault = "entry" /\ DOMAIN d.files # {}
                       \/ fault = "metadata" /\ photos # {}
         IN  IF failed THEN ScanResult(FALSE, photo_files, {}, {}, d)
             ELSE ScanResult(TRUE,
                             [n \in photos \cup DOMAIN photo_files |->
                                 IF n \in photos THEN d.files[n] ELSE photo_files[n]],
                             {n \in photos : n \notin DOMAIN photo_files},
                             {n \in DOMAIN photo_files : n \notin photos}, d)

\* a scan that, finding no directory, reports every stored file as removed
\* and empties the stored listing
scan_database_ReportsOnCreate(photo_files, d, fault) ==
    IF ~d.exists THEN
        IF fault = "create_dir" THEN ScanResult(FALSE, photo_files, {}, {}, d)
        ELSE ScanResult(TRUE, NoFiles, {}, DOMAIN photo_files,
                        [exists |-> TRUE, files |-> NoFiles])
    ELSE LET photos == {n \in DOMAIN d.files : IsPhoto(n)}
             current_files == [n \in photos |-> d.files[n]]
             failed == \/ fault = "read_dir"
                       \/ fault = "entry" /\ DOMAIN d.files # {}
                       \/ fault = "metadata" /\ photos # {}
         IN  IF failed THEN ScanResult(FALSE, photo_files, {}, {}, d)
             ELSE ScanResult(TRUE, current_files,
                             {n \in photos : n \notin DOMAIN photo_files},
                             {n \in DOMAIN photo_files : n \notin photos}, d)

\* a scan that reports a file whose modification time changed as removed
\* and added again
scan_database_ChangedIsNew(photo_files, d, fault) ==
    IF ~d.exists THEN
        IF fault = "create_dir" THEN ScanResult(FALSE, photo_files, {}, {}, d)
        ELSE ScanResult(TRUE, photo_files, {}, {},
                        [exists |-> TRUE, files |-> NoFiles])
    ELSE LET photos == {n \in DOMAIN d.files : IsPhoto(n)}
             current_files == [n \in photos |-> d.files[n]]
             same == {n \in photos \cap DOMAIN photo_files :
                        photo_files[n] = d.files[n]}
             failed == \/ fault = "read_dir"
                       \/ fault = "entry" /\ DOMAIN d.files # {}
                       \/ fault = "metadata" /\ photos # {}
         IN  IF failed THEN ScanResult(FALSE, photo_files, {}, {}, d)
             ELSE ScanResult(TRUE, current_files,
                             photos \ same, DOMAIN photo_files \ same, d)

scan_database(photo_files, d, fault) ==
    IF ~d.exists THEN
        IF fault = "create_dir" THEN ScanResult(FALSE, photo_files, {}, {}, d)
        ELSE ScanResult(TRUE, photo_files, {}, {},
                        [exists |-> TRUE, files |-> NoFiles])
    ELSE LET photos == {n \in DOMAIN d.files : IsPhoto(n)}
             current_files == [n \in photos |-> d.files[n]]
             failed == \/ fault = "read_dir"
                       \/ fault = "entry" /\ DOMAIN d.files # {}
                       \/ fault = "metadata" /\ photos # {}
         IN  IF failed THEN ScanResult(FALSE, photo_files, {}, {}, d)
             ELSE ScanResult(TRUE, current_files,
                             {n \in photos : n \notin DOMAIN photo_files},
                             {n \in DOMAIN photo_files : n \notin photos}, d)

(***************************************************************************)
(* tokio::sync::RwLock as the code uses it: any number of readers or one   *)
(* writer, requests served in arrival order.                               *)
(***************************************************************************)
Task(kind, n) == [kind |-> kind, n |-> n]
CaptureTask == Task("capture", 0)
MonitorTask == Task("monitor", 0)
ReloadTask == Task("reload", 0)
HttpTask(h) == Task("http", h)
Nobody == Task(NoTask, 0)

FreeLock == [readers |-> {}, writer |-> Nobody, queue |-> <<>>]

\* .read().await / .write().await is polled for the first time
Request(lock, task, mode) ==
    [lock EXCEPT !.queue = Append(@, [task |-> task, mode |-> mode])]

\* the request at the head of the queue can be granted to task
CanAcquire(lock, task) ==
    /\ lock.queue # <<>>
    /\ Head(lock.queue).task = task
    /\ lock.writer = Nobody
    /\ Head(lock.queue).mode = "write" => lock.readers = {}

Acquire(lock, task) ==
    IF Head(lock.queue).mode = "write"
    THEN [lock EXCEPT !.writer = task, !.queue = Tail(@)]
    ELSE [lock EXCEPT !.readers = @ \cup {task}, !.queue = Tail(@)]

\* the guard is dropped
Release(lock, task) ==
    [lock EXCEPT !.readers = @ \ {task},
                 !.writer = IF @ = task THEN Nobody ELSE @]

(***************************************************************************)
(* processors/face_detector.rs: the skin-tone detector of the library.     *)
(* An image is [width, height, pattern]; pixel gives the RGB value the     *)
(* pattern puts at a position.                                             *)
(***************************************************************************)
Blue == <<0, 0, 255>>
SkinTone == <<200, 150, 130>>
Patterns == {"blue", "skin", "alternate", "block"}
Sides == {0, 1, 19, 20, MaxSide}
Images == [width : Sides, height : Sides, pattern : Patterns]

pixel(image, px, py) ==
    CASE image.pattern = "blue" -> Blue
      [] image.pattern = "skin" -> SkinTone
      [] image.pattern = "alternate" ->
            IF (py * image.width + px) % 2 = 0 THEN SkinTone ELSE Blue
      [] OTHER ->
            IF /\ 4 * px >= image.width /\ 4 * px < 3 * image.width
               /\ 4 * py >= image.height /\ 4 * py < 3 * image.height
            THEN SkinTone ELSE Blue

\* the test of face_detector.rs:85-91 on one pixel
is_skin(rgb) ==
    LET r == rgb[1]
        g == rgb[2]
        b == rgb[3]
    IN  r > 95 /\ g > 40 /\ b > 20 /\ r > g /\ r > b /\ r - g > 15 /\ r - b > 15

count_skin_pixels(image, x, y, width, height) ==
    Cardinality({p \in (x..(x + width - 1)) \X (y..(y + height - 1)) :
                    /\ p[1] < image.width /\ p[2] < image.height
                    /\ is_skin(pixel(image, p[1], p[2]))})

max(a, b) == IF a >= b THEN a ELSE b
min(a, b) == IF a <= b THEN a ELSE b

\* how many values (0..n).step_by(step) yields
StepCount(n, step) == (n + step - 1) \div step

Detection(x, y, region_width, region_height, skin_pixel_count) ==
    [bounding_box |-> <<x, y, region_width, region_height>>,
     skin |-> skin_pixel_count,
     total |-> region_width * region_height]

\* face_detector.rs:14-66.  step_by panics when its step is 0, which
\* min_face_size is for an image whose larger side is below 20; the
\* regions are visited row by row, and skin / total > 0.3 is compared in
\* the integers.
detect_faces(image) ==
    LET width == image.width
        height == image.height
        min_face_size == max(width, height) \div 20
        max_face_size == min(width, height) \div 2
        nx == StepCount(width, min_face_size)
        ny == StepCount(height, min_face_size)
        at(k) == <<((k - 1) % nx) * min_face_size, ((k - 1) \div nx) * min_face_size>>
        region(k) ==
            LET x == at(k)[1]
                y == at(k)[2]
                region_width == min(max_face_size, width - x)
                region_height == min(max_face_size, height - y)
            IN  Detection(x, y, region_width, region_height,
                          count_skin_pixels(image, x, y, region_width, region_height))
        regions == [k \in 1..(nx * ny) |-> region(k)]
        accepted(d) ==
            /\ d.bounding_box[3] >= min_face_size
            /\ d.bounding_box[4] >= min_face_size
            /\ d.total > 0
            /\ 10 * d.skin > 3 * d.total
    IN  IF min_face_size = 0 THEN [panicked |-> TRUE, detections |-> <<>>]
        ELSE [panicked |-> FALSE, detections |-> SelectSeq(regions, accepted)]

\* the feature vectors compare_faces is called on
Components == {-1, 0, 1}
FeatureVectors == UNION {[1..n -> Components] : n \in 0..MaxLen}

(***************************************************************************)
(* State.                                                                  *)
(***************************************************************************)
VARIABLES
    face_records_json,  \* database/face_records.json: [exists, records]
    next_id,            \* the next fresh FaceRecord id (Uuid::new_v4)
    dir,                \* the database directory: [exists, files]
    db_monitor,         \* the DatabaseMonitor: [face_db, photo_files]
    monitor_lock,       \* the RwLock around db_monitor        (main.rs:36)
    last_result,        \* the RecognitionResponse cell        (main.rs:53)
    result_lock,        \* the RwLock around last_result       (main.rs:53)
    capture_pc,         \* position of the capture loop        (main.rs:75-134)
    face_db,            \* the loop's clone of the registry    (main.rs:86)
    faces,              \* regions detected in the frame       (main.rs:92)
    recognized,         \* outcome of recognize_face           (main.rs:100)
    iter,               \* what the current iteration has done so far, and,
                        \* until detection, the registry file as it was when
                        \* the frame was read
    monitor_pc,         \* position of the refresh task        (monitor.rs:170-178)
    scan_report,        \* what the scan in progress printed / returned
    http_pc,            \* per status request: position in the handler
    http_resp,          \* per status request: the response it cloned
    reload_pc,          \* position of a caller of update_face_database
    call_faces,         \* recognize_face called on its own: its regions
    call_result,        \* ... and all that the call did and returned
    db,                 \* a FaceDatabase object used on its own: [open, records]
    db_call,            \* ... and the last call made on it
    cli,                \* per operator command: [pc, cmd, record, records]
    acked,              \* ids whose add was acknowledged and that no
                        \* acknowledged remove has named since
    lib_call            \* a library function called on its own:
                        \* [fn, args, returned, result]

vars == <<face_records_json, next_id, dir, db_monitor, monitor_lock, last_result,
          result_lock, capture_pc, face_db, faces, recognized, iter, monitor_pc,
          scan_report, http_pc, http_resp, reload_pc, call_faces, call_result,
          db, db_call, cli, acked, lib_call>>

\* the state of the parts that are also checked on their own
call_vars == <<call_faces, call_result, db, db_call, cli, acked, lib_call>>

operator_vars == <<face_records_json, next_id>>
capture_vars == <<capture_pc, face_db, faces, recognized, iter>>
monitor_vars == <<monitor_pc, scan_report>>
http_vars == <<http_pc, http_resp>>

\* the decision stored on a match (main.rs:107-108) ...
MatchDecision == [name |-> AuthorizedUser, recognized |-> TRUE]
\* a no-match branch that forgets `result.name = None`
NoMatchDecision_KeepsName == [name |-> AuthorizedUser, recognized |-> FALSE]
\* ... and on no match (main.rs:126-127)
NoMatchDecision == [name |-> NoName, recognized |-> FALSE]
\* the cell as constructed (main.rs:53-56)
InitialDecision == [name |-> NoName, recognized |-> FALSE]

NoOutcome == Outcome("none", NoPair, "none", NoWork)
NewIteration == [actions |-> <<>>, writes |-> 0, saved_photo |-> FALSE,
                 archived |-> FALSE, failed |-> "none", file_at_read |-> NoFile]
NoReport == [ok |-> TRUE, added |-> {}, removed |-> {}]
NoResponse == [name |-> "unread", recognized |-> FALSE]

RECURSIVE RegistryOf(_)
\* the records with the ids of S, in registration order
RegistryOf(S) ==
    IF S = {} THEN <<>>
    ELSE LET last == CHOOSE x \in S : \A y \in S : y <= x
         IN  Append(RegistryOf(S \ {last}), FaceRecord(last))

\* the directory main.rs finds at start-up (it creates it when missing)
InitialDir == [exists |-> TRUE, files |-> [n \in {"a.jpg", "notes.txt"} |-> 1]]

(***************************************************************************)
(* The state after main.rs:28-70: registry loaded, monitor constructed     *)
(* (with its initial scan), decision cell created, tasks spawned, camera   *)
(* opened.  The operator has registered the first n faces before.          *)
(***************************************************************************)
ProgramInit ==
    /\ \E n \in 0..NumRecords :
         /\ face_records_json = IF n = 0 THEN NoFile
                                ELSE FaceDatabase_save(RegistryOf(1..n))
         /\ next_id = n + 1
    /\ dir = InitialDir
    /\ db_monitor = [face_db |-> FaceDatabase_new(face_records_json),
                     photo_files |-> scan_database(NoFiles, dir, "none").photo_files]
    /\ monitor_lock = FreeLock
    /\ last_result = InitialDecision
    /\ result_lock = FreeLock
    /\ capture_pc = "read"
    /\ face_db = <<>>
    /\ faces = <<>>
    /\ recognized = NoOutcome
    /\ iter = NewIteration
    /\ monitor_pc = "sleep"
    /\ scan_report = NoReport
    /\ http_pc = [h \in Handlers |-> "idle"]
    /\ http_resp = [h \in Handlers |-> NoResponse]
    /\ reload_pc = "idle"

Clis == 1..NumClis
NoRecord == [id |-> 0, name |-> "", photo_path |-> 0, created_at |-> 0]
NoDatabase == [open |-> FALSE, records |-> <<>>]
NoCall == [op |-> "none", ok |-> TRUE, record |-> NoRecord, before |-> <<>>,
           file_before |-> NoFile, save_called |-> FALSE, report |-> ""]
NoCommand == [pc |-> "idle", cmd |-> "none", record |-> NoRecord, records |-> <<>>]

LibCall(fn, args) == [fn |-> fn, args |-> args, returned |-> FALSE, result |-> <<>>]
NoLibCall == LibCall("none", <<>>)

\* no FaceDatabase object of its own yet, no operator command under way,
\* no library call
PartsInit ==
    /\ db = NoDatabase
    /\ db_call = NoCall
    /\ cli = [p \in Clis |-> NoCommand]
    /\ acked = {}
    /\ lib_call = NoLibCall

Init == ProgramInit /\ call_faces = <<>> /\ call_result = NoOutcome /\ PartsInit

\* main has not returned: the runtime and its tasks are alive
Running == capture_pc # "exited"

(***************************************************************************)
(* The capture / decision loop (main.rs:75-134).                           *)
(***************************************************************************)
\* what detect_faces can return for a frame: a list of n rectangles ...
Rects(n) == [i \in 1..n |-> i]
FaceLists == {Rects(n) : n \in 0..MaxFaces}
\* ... and what Mat::roi and extract_features make of each of them
RegionsOf(rects) == [1..Len(rects) -> Regions]

\* an Err leaves main through `?`: the process ends
Exit(call) ==
    /\ capture_pc' = "exited"
    /\ iter' = [iter EXCEPT !.failed = call]

\* main.rs:77-83: cam.read, and the empty-frame branch up to its sleep
CaptureReadFrame ==
    /\ capture_pc = "read"
    /\ \E got \in {"err", "empty", "frame"} :
         CASE got = "err"   -> Exit("camera")
           [] got = "empty" -> capture_pc' = "idle" /\ UNCHANGED iter
           [] OTHER         ->
                /\ capture_pc' = "get_db"
                /\ iter' = [iter EXCEPT !.file_at_read = face_records_json]
    /\ UNCHANGED <<call_vars, operator_vars, dir, db_monitor, monitor_lock, last_result,
                   result_lock, face_db, faces, recognized, monitor_vars,
                   http_vars, reload_pc>>

\* an empty-frame branch without its `continue`
CaptureIdleWake_NoContinue ==
    /\ capture_pc = "idle"
    /\ capture_pc' = "get_db"
    /\ UNCHANGED <<call_vars, operator_vars, dir, db_monitor, monitor_lock, last_result,
                   result_lock, face_db, faces, recognized, iter, monitor_vars,
                   http_vars, reload_pc>>

\* main.rs:81-82: the one-second sleep is over, `continue`
CaptureIdleWake ==
    /\ capture_pc = "idle"
    /\ capture_pc' = "read"
    /\ UNCHANGED <<call_vars, operator_vars, dir, db_monitor, monitor_lock, last_result,
                   result_lock, face_db, faces, recognized, iter, monitor_vars,
                   http_vars, reload_pc>>

\* main.rs:87: db_monitor.read() is first polled
CaptureRequestSnapshot ==
    /\ capture_pc = "get_db"
    /\ monitor_lock' = Request(monitor_lock, CaptureTask, "read")
    /\ capture_pc' = "get_db_wait"
    /\ UNCHANGED <<call_vars, operator_vars, dir, db_monitor, last_result, result_lock,
                   face_db, faces, recognized, iter, monitor_vars, http_vars,
                   reload_pc>>

\* a loop that lets go of the read guard before it clones
CaptureAcquireSnapshot_NoHold ==
    /\ capture_pc = "get_db_wait"
    /\ CanAcquire(monitor_lock, CaptureTask)
    /\ monitor_lock' = [monitor_lock EXCEPT !.queue = Tail(@)]
    /\ face_db' = <<>>
    /\ capture_pc' = "clone"
    /\ UNCHANGED <<call_vars, operator_vars, dir, db_monitor, last_result, result_lock,
                   faces, recognized, iter, monitor_vars, http_vars, reload_pc>>

\* main.rs:87: the read guard is granted
CaptureAcquireSnapshot ==
    /\ capture_pc = "get_db_wait"
    /\ CanAcquire(monitor_lock, CaptureTask)
    /\ monitor_lock' = Acquire(monitor_lock, CaptureTask)
    /\ face_db' = <<>>
    /\ capture_pc' = "clone"
    /\ UNCHANGED <<call_vars, operator_vars, dir, db_monitor, last_result, result_lock,
                   faces, recognized, iter, monitor_vars, http_vars, reload_pc>>

\* main.rs:88: get_face_database().clone() copies the next record
CaptureCloneRecord ==
    /\ capture_pc = "clone"
    /\ Len(face_db) < Len(db_monitor.face_db)
    /\ face_db' = Append(face_db, db_monitor.face_db[Len(face_db) + 1])
    /\ UNCHANGED <<call_vars, operator_vars, dir, db_monitor, monitor_lock, last_result,
                   result_lock, capture_pc, faces, recognized, iter,
                   monitor_vars, http_vars, reload_pc>>

\* the snapshot borrowed through the read guard, which then lives on
CaptureReleaseSnapshot_KeepsGuard ==
    /\ capture_pc = "clone"
    /\ Len(face_db) >= Len(db_monitor.face_db)
    /\ capture_pc' = "detect"
    /\ UNCHANGED <<call_vars, operator_vars, dir, db_monitor, monitor_lock,
                   last_result, result_lock, face_db, faces, recognized, iter,
                   monitor_vars, http_vars, reload_pc>>

\* main.rs:89: the clone is complete, the guard is dropped
CaptureReleaseSnapshot ==
    /\ capture_pc = "clone"
    /\ Len(face_db) >= Len(db_monitor.face_db)
    /\ monitor_lock' = Release(monitor_lock, CaptureTask)
    /\ capture_pc' = "detect"
    /\ UNCHANGED <<call_vars, operator_vars, dir, db_monitor, last_result, result_lock,
                   face_db, faces, recognized, iter, monitor_vars, http_vars,
                   reload_pc>>

\* a loop without the `if !faces.is_empty()` of main.rs:94
CaptureDetect_NoEmptyTest ==
    /\ capture_pc = "detect"
    /\ \/ /\ capture_pc' = "exited"
          /\ iter' = [iter EXCEPT !.failed = "detect_faces", !.file_at_read = NoFile]
          /\ UNCHANGED faces
       \/ \E found \in FaceLists :
            /\ faces' = found
            /\ capture_pc' = "save_frame"
            /\ iter' = [iter EXCEPT !.file_at_read = NoFile]
    /\ UNCHANGED <<call_vars, operator_vars, dir, db_monitor, monitor_lock, last_result,
                   result_lock, face_db, recognized, monitor_vars, http_vars,
                   reload_pc>>

\* main.rs:92-94: detect_faces(&frame)? and the test for an empty list
CaptureDetect ==
    /\ capture_pc = "detect"
    /\ \/ /\ capture_pc' = "exited"
          /\ iter' = [iter EXCEPT !.failed = "detect_faces", !.file_at_read = NoFile]
          /\ UNCHANGED faces
       \/ \E found \in FaceLists :
            /\ faces' = found
            /\ capture_pc' = IF found = <<>> THEN "sleep" ELSE "save_frame"
            /\ iter' = [iter EXCEPT !.file_at_read = NoFile]
    /\ UNCHANGED <<call_vars, operator_vars, dir, db_monitor, monitor_lock, last_result,
                   result_lock, face_db, recognized, monitor_vars, http_vars,
                   reload_pc>>

\* main.rs:96-97: save_frame(&frame, &photo_name)?
CaptureSaveFrame ==
    /\ capture_pc = "save_frame"
    /\ \/ Exit("save_frame")
       \/ /\ iter' = [iter EXCEPT !.saved_photo = TRUE]
          /\ capture_pc' = "recognize"
    /\ UNCHANGED <<call_vars, operator_vars, dir, db_monitor, monitor_lock, last_result,
                   result_lock, face_db, faces, recognized, monitor_vars,
                   http_vars, reload_pc>>

\* main.rs:100: recognize_face(&mut face_recognizer, &frame, &faces, &face_db)?
CaptureRecognize ==
    /\ capture_pc = "recognize"
    /\ \E outcome \in {recognize_face(regions, face_db, disk) :
                            regions \in RegionsOf(faces), disk \in DisksFor(face_db)} :
             /\ recognized' = Returned(outcome)
             /\ CASE outcome.res = "err"  -> Exit("recognize_face")
                  [] outcome.res = "true" -> capture_pc' = "unlock" /\ UNCHANGED iter
                  [] OTHER                -> capture_pc' = "lock" /\ UNCHANGED iter
    /\ UNCHANGED <<call_vars, operator_vars, dir, db_monitor, monitor_lock, last_result,
                   result_lock, face_db, faces, monitor_vars, http_vars,
                   reload_pc>>

\* main.rs:101-102: unlock_screen()? (which only prints and returns Ok)
CaptureUnlock ==
    /\ capture_pc = "unlock"
    /\ iter' = [iter EXCEPT !.actions = Append(@, "unlock")]
    /\ capture_pc' = "write"
    /\ UNCHANGED <<call_vars, operator_vars, dir, db_monitor, monitor_lock, last_result,
                   result_lock, face_db, faces, recognized, monitor_vars,
                   http_vars, reload_pc>>

\* main.rs:120-121: lock_screen()?: the command is spawned, or spawning fails
CaptureLock ==
    /\ capture_pc = "lock"
    /\ \/ /\ iter' = [iter EXCEPT !.actions = Append(@, "lock")]
          /\ capture_pc' = "write"
       \/ /\ iter' = [iter EXCEPT !.actions = Append(@, "lock"),
                                  !.failed = "lock_screen"]
          /\ capture_pc' = "exited"
    /\ UNCHANGED <<call_vars, operator_vars, dir, db_monitor, monitor_lock, last_result,
                   result_lock, face_db, faces, recognized, monitor_vars,
                   http_vars, reload_pc>>

\* the decision this iteration stores (main.rs:104-109 or 123-128)
Decision == IF recognized.res = "true" THEN MatchDecision ELSE NoMatchDecision

\* main.rs:106 / 125: last_result.write() is first polled
CaptureRequestResult ==
    /\ capture_pc = "write"
    /\ result_lock' = Request(result_lock, CaptureTask, "write")
    /\ capture_pc' = "write_wait"
    /\ UNCHANGED <<call_vars, operator_vars, dir, db_monitor, monitor_lock, last_result,
                   face_db, faces, recognized, iter, monitor_vars, http_vars,
                   reload_pc>>

\* main.rs:106 / 125: the write guard is granted
CaptureAcquireResult ==
    /\ capture_pc = "write_wait"
    /\ CanAcquire(result_lock, CaptureTask)
    /\ result_lock' = Acquire(result_lock, CaptureTask)
    /\ capture_pc' = "write_name"
    /\ UNCHANGED <<call_vars, operator_vars, dir, db_monitor, monitor_lock, last_result,
                   face_db, faces, recognized, iter, monitor_vars, http_vars,
                   reload_pc>>

\* main.rs:107 / 126: result.name = ...
CaptureWriteName ==
    /\ capture_pc = "write_name"
    /\ last_result' = [last_result EXCEPT !.name = Decision.name]
    /\ capture_pc' = "write_recognized"
    /\ UNCHANGED <<call_vars, operator_vars, dir, db_monitor, monitor_lock, result_lock,
                   face_db, faces, recognized, iter, monitor_vars, http_vars,
                   reload_pc>>

\* main.rs:108-109 / 127-128: result.recognized = ..., the guard is dropped
CaptureWriteRecognized ==
    /\ capture_pc = "write_recognized"
    /\ last_result' = [last_result EXCEPT !.recognized = Decision.recognized]
    /\ result_lock' = Release(result_lock, CaptureTask)
    /\ iter' = [iter EXCEPT !.writes = @ + 1]
    /\ capture_pc' = IF recognized.res = "true" THEN "archive" ELSE "sleep"
    /\ UNCHANGED <<call_vars, operator_vars, dir, db_monitor, monitor_lock, face_db, faces,
                   recognized, monitor_vars, http_vars, reload_pc>>

\* the archive step with the error of save_customer_photo returned by main
CaptureArchive_SaveErrorFatal ==
    /\ capture_pc = "archive"
    /\ \E did \in {"encode_err", "save_err", "saved"} :
         CASE did = "encode_err" -> Exit("mat_to_jpg_bytes")
           [] did = "save_err"   -> Exit("save_customer_photo")
           [] OTHER              -> /\ capture_pc' = "sleep"
                                    /\ iter' = [iter EXCEPT !.archived = TRUE]
    /\ UNCHANGED <<call_vars, operator_vars, dir, db_monitor, monitor_lock, last_result,
                   result_lock, face_db, faces, recognized, monitor_vars,
                   http_vars, reload_pc>>

\* main.rs:112-118: mat_to_jpg_bytes(&frame)?, then save_customer_photo,
\* whose error is printed
CaptureArchive ==
    /\ capture_pc = "archive"
    /\ \E did \in {"encode_err", "save_err", "saved"} :
         CASE did = "encode_err" -> Exit("mat_to_jpg_bytes")
           [] did = "save_err"   -> capture_pc' = "sleep" /\ UNCHANGED iter
           [] OTHER              -> /\ capture_pc' = "sleep"
                                    /\ iter' = [iter EXCEPT !.archived = TRUE]
    /\ UNCHANGED <<call_vars, operator_vars, dir, db_monitor, monitor_lock, last_result,
                   result_lock, face_db, faces, recognized, monitor_vars,
                   http_vars, reload_pc>>

\* main.rs:133-134: the ten-second sleep is over; the iteration's locals
\* (frame, face_db, faces) are dropped and the next iteration begins
CaptureSleep ==
    /\ capture_pc = "sleep"
    /\ capture_pc' = "read"
    /\ face_db' = <<>>
    /\ faces' = <<>>
    /\ recognized' = NoOutcome
    /\ iter' = NewIteration
    /\ UNCHANGED <<call_vars, operator_vars, dir, db_monitor, monitor_lock, last_result,
                   result_lock, monitor_vars, http_vars, reload_pc>>

\* main.rs:75-89: from reading a frame to the cloned snapshot
CaptureSnapshot ==
    \/ CaptureReadFrame \/ CaptureIdleWake
    \/ CaptureRequestSnapshot \/ CaptureAcquireSnapshot
    \/ CaptureCloneRecord \/ CaptureReleaseSnapshot

Capture ==
    \/ CaptureSnapshot
    \/ CaptureDetect \/ CaptureSaveFrame \/ CaptureRecognize
    \/ CaptureUnlock \/ CaptureLock
    \/ CaptureRequestResult \/ CaptureAcquireResult
    \/ CaptureWriteName \/ CaptureWriteRecognized
    \/ CaptureArchive \/ CaptureSleep

(***************************************************************************)
(* The registry-refresh task (monitor.rs:166-182).                         *)
(***************************************************************************)
\* a refresh task that takes monitor.read() for its scan
MonitorWake_ReadLock ==
    /\ Running
    /\ monitor_pc = "sleep"
    /\ monitor_lock' = Request(monitor_lock, MonitorTask, "read")
    /\ monitor_pc' = "wait"
    /\ UNCHANGED <<call_vars, operator_vars, dir, db_monitor, last_result, result_lock,
                   capture_vars, scan_report, http_vars, reload_pc>>

\* monitor.rs:172-174: the 60 s sleep is over, monitor.write() is first polled
MonitorWake ==
    /\ Running
    /\ monitor_pc = "sleep"
    /\ monitor_lock' = Request(monitor_lock, MonitorTask, "write")
    /\ monitor_pc' = "wait"
    /\ UNCHANGED <<call_vars, operator_vars, dir, db_monitor, last_result, result_lock,
                   capture_vars, scan_report, http_vars, reload_pc>>

\* monitor.rs:174: the write guard is granted
MonitorAcquire ==
    /\ Running
    /\ monitor_pc = "wait"
    /\ CanAcquire(monitor_lock, MonitorTask)
    /\ monitor_lock' = Acquire(monitor_lock, MonitorTask)
    /\ monitor_pc' = "scan"
    /\ UNCHANGED <<call_vars, operator_vars, dir, db_monitor, last_result, result_lock,
                   capture_vars, scan_report, http_vars, reload_pc>>

\* monitor.rs:175-177: monitor.scan_database(), an Err is printed
MonitorScan ==
    /\ Running
    /\ monitor_pc = "scan"
    /\ \E fault \in Faults :
         LET r == scan_database(db_monitor.photo_files, dir, fault)
         IN  /\ db_monitor' = [db_monitor EXCEPT !.photo_files = r.photo_files]
             /\ dir' = r.dir
             /\ scan_report' = [ok |-> r.ok, added |-> r.added,
                                removed |-> r.removed]
    /\ monitor_pc' = "scanned"
    /\ UNCHANGED <<call_vars, operator_vars, monitor_lock, last_result, result_lock,
                   capture_vars, http_vars, reload_pc>>

\* a loop body that never drops its write guard
MonitorRelease_KeepsGuard ==
    /\ Running
    /\ monitor_pc = "scanned"
    /\ scan_report' = NoReport
    /\ monitor_pc' = "sleep"
    /\ UNCHANGED <<call_vars, operator_vars, dir, db_monitor, monitor_lock, last_result,
                   result_lock, capture_vars, http_vars, reload_pc>>

\* a task that returns the scan's error (`monitor.scan_database()?`)
MonitorRelease_ErrorEndsTask ==
    /\ Running
    /\ monitor_pc = "scanned"
    /\ monitor_lock' = Release(monitor_lock, MonitorTask)
    /\ scan_report' = NoReport
    /\ monitor_pc' = IF scan_report.ok THEN "sleep" ELSE "ended"
    /\ UNCHANGED <<call_vars, operator_vars, dir, db_monitor, last_result, result_lock,
                   capture_vars, http_vars, reload_pc>>

\* monitor.rs:178: end of the loop body, the write guard is dropped
MonitorRelease ==
    /\ Running
    /\ monitor_pc = "scanned"
    /\ monitor_lock' = Release(monitor_lock, MonitorTask)
    /\ scan_report' = NoReport
    /\ monitor_pc' = "sleep"
    /\ UNCHANGED <<call_vars, operator_vars, dir, db_monitor, last_result, result_lock,
                   capture_vars, http_vars, reload_pc>>

Monitor == MonitorWake \/ MonitorAcquire \/ MonitorScan \/ MonitorRelease

(***************************************************************************)
(* The status endpoint (monitor.rs:216-221), one handler per request.      *)
(***************************************************************************)
\* a GET /recognition arrives; result.read() is first polled
HttpRequest(h) ==
    /\ Running
    /\ http_pc[h] = "idle"
    /\ result_lock' = Request(result_lock, HttpTask(h), "read")
    /\ http_pc' = [http_pc EXCEPT ![h] = "wait"]
    /\ UNCHANGED <<call_vars, operator_vars, dir, db_monitor, monitor_lock, last_result,
                   capture_vars, monitor_vars, http_resp, reload_pc>>

\* a handler that reads the cell without waiting for the guard
HttpAcquire_NoWait(h) ==
    /\ Running
    /\ http_pc[h] = "wait"
    /\ result_lock.queue # <<>> /\ Head(result_lock.queue).task = HttpTask(h)
    /\ result_lock' = Acquire(result_lock, HttpTask(h))
    /\ http_pc' = [http_pc EXCEPT ![h] = "read"]
    /\ UNCHANGED <<call_vars, operator_vars, dir, db_monitor, monitor_lock, last_result,
                   capture_vars, monitor_vars, http_resp, reload_pc>>

\* monitor.rs:219: the read guard is granted
HttpAcquire(h) ==
    /\ Running
    /\ http_pc[h] = "wait"
    /\ CanAcquire(result_lock, HttpTask(h))
    /\ result_lock' = Acquire(result_lock, HttpTask(h))
    /\ http_pc' = [http_pc EXCEPT ![h] = "read"]
    /\ UNCHANGED <<call_vars, operator_vars, dir, db_monitor, monitor_lock, last_result,
                   capture_vars, monitor_vars, http_resp, reload_pc>>

\* monitor.rs:219: .clone(), then the temporary guard is dropped
HttpClone(h) ==
    /\ Running
    /\ http_pc[h] = "read"
    /\ http_resp' = [http_resp EXCEPT ![h] = last_result]
    /\ result_lock' = Release(result_lock, HttpTask(h))
    /\ http_pc' = [http_pc EXCEPT ![h] = "reply"]
    /\ UNCHANGED <<call_vars, operator_vars, dir, db_monitor, monitor_lock, last_result,
                   capture_vars, monitor_vars, reload_pc>>

\* monitor.rs:220: the JSON reply is sent
HttpReply(h) ==
    /\ Running
    /\ http_pc[h] = "reply"
    /\ http_resp' = [http_resp EXCEPT ![h] = NoResponse]
    /\ http_pc' = [http_pc EXCEPT ![h] = "idle"]
    /\ UNCHANGED <<call_vars, operator_vars, dir, db_monitor, monitor_lock, last_result,
                   result_lock, capture_vars, monitor_vars, reload_pc>>

Http == \E h \in Handlers :
            HttpRequest(h) \/ HttpAcquire(h) \/ HttpClone(h) \/ HttpReply(h)

(***************************************************************************)
(* The operator's command line (bin/cli.rs), one command at a time.        *)
(***************************************************************************)
\* cli.rs:95-98: FaceDatabase::new, FaceRecord::new, add_record (push, save)
OperatorAdd ==
    /\ next_id <= NumRecords
    /\ \E saved \in BOOLEAN :
         LET records == FaceDatabase_new(face_records_json)
             added == Append(records, FaceRecord(next_id))
         IN  face_records_json' = IF saved THEN FaceDatabase_save(added)
                                  ELSE face_records_json
    /\ next_id' = next_id + 1
    /\ UNCHANGED <<call_vars, dir, db_monitor, monitor_lock, last_result,
                   result_lock, capture_vars, monitor_vars, http_vars, reload_pc>>

\* cli.rs:114-125: FaceDatabase::new, retain, save when a record went away
OperatorRemove ==
    /\ \E id \in RecordIds, saved \in BOOLEAN :
         LET records == FaceDatabase_new(face_records_json)
             kept == retain(records, id)
         IN  /\ Len(kept) < Len(records)
             /\ face_records_json' = IF saved THEN FaceDatabase_save(kept)
                                      ELSE face_records_json
    /\ UNCHANGED <<call_vars, next_id, dir, db_monitor, monitor_lock,
                   last_result, result_lock, capture_vars, monitor_vars,
                   http_vars, reload_pc>>

Operator == OperatorAdd \/ OperatorRemove

(***************************************************************************)
(* The program: capture loop, refresh task and status endpoint, with the   *)
(* registry file and the database directory left alone.                    *)
(***************************************************************************)
Next == Capture \/ Monitor \/ Http

Spec == Init /\ [][Next]_vars

\* Scheduling: main runs on its own thread and each spawned task on the
\* workers of the multi-thread runtime (main.rs:25, 46, 60), so a task that
\* can take a step takes it; sleeps end and camera reads return.  Status
\* requests arrive when clients send them.
Fairness ==
    /\ WF_vars(Capture)
    /\ WF_vars(Monitor)
    /\ \A h \in Handlers : WF_vars(HttpAcquire(h) \/ HttpClone(h) \/ HttpReply(h))

\* the size of the registry plays no part in who waits for whom: one
\* registered face
InitFair == Init /\ next_id = 2

SpecFair == InitFair /\ [][Next]_vars /\ Fairness

(***************************************************************************)
(* A caller of DatabaseMonitor::update_face_database (monitor.rs:159-162). *)
(* The method takes &mut self and the monitor lives in the RwLock of       *)
(* main.rs:36, so a caller holds the write guard around it.                *)
(***************************************************************************)
\* monitor.write() is first polled
ReloadRequest ==
    /\ Running
    /\ reload_pc = "idle"
    /\ monitor_lock' = Request(monitor_lock, ReloadTask, "write")
    /\ reload_pc' = "wait"
    /\ UNCHANGED <<call_vars, operator_vars, dir, db_monitor, last_result, result_lock,
                   capture_vars, monitor_vars, http_vars>>

\* the write guard is granted
ReloadAcquire ==
    /\ Running
    /\ reload_pc = "wait"
    /\ CanAcquire(monitor_lock, ReloadTask)
    /\ monitor_lock' = Acquire(monitor_lock, ReloadTask)
    /\ reload_pc' = "update"
    /\ UNCHANGED <<call_vars, operator_vars, dir, db_monitor, last_result, result_lock,
                   capture_vars, monitor_vars, http_vars>>

\* monitor.rs:160-161: self.face_db = FaceDatabase::new()?, where reading or
\* parsing the file can fail; then the guard is dropped
ReloadUpdate ==
    /\ Running
    /\ reload_pc = "update"
    /\ \E loaded \in BOOLEAN :
         db_monitor' = IF loaded
                       THEN [db_monitor EXCEPT
                                !.face_db = FaceDatabase_new(face_records_json)]
                       ELSE db_monitor
    /\ monitor_lock' = Release(monitor_lock, ReloadTask)
    /\ reload_pc' = "idle"
    /\ UNCHANGED <<call_vars, operator_vars, dir, last_result, result_lock, capture_vars,
                   monitor_vars, http_vars>>

Reload == ReloadRequest \/ ReloadAcquire \/ ReloadUpdate

(***************************************************************************)
(* The database directory changes under the refresh task: photos are       *)
(* copied in (bin/cli.rs:87-90) or replaced, files are deleted, the        *)
(* directory itself is deleted (the case of monitor.rs:88-91).             *)
(***************************************************************************)
DirWrite ==
    /\ dir.exists
    /\ \E n \in FileNames, t \in Mtimes :
         /\ n \in DOMAIN dir.files => dir.files[n] # t
         /\ dir' = [dir EXCEPT !.files =
                        [f \in DOMAIN dir.files \cup {n} |->
                            IF f = n THEN t ELSE dir.files[f]]]
    /\ UNCHANGED <<call_vars, operator_vars, db_monitor, monitor_lock, last_result,
                   result_lock, capture_vars, monitor_vars, http_vars, reload_pc>>

DirRemoveFile ==
    /\ dir.exists
    /\ \E n \in DOMAIN dir.files :
         dir' = [dir EXCEPT !.files = [f \in DOMAIN dir.files \ {n} |-> dir.files[f]]]
    /\ UNCHANGED <<call_vars, operator_vars, db_monitor, monitor_lock, last_result,
                   result_lock, capture_vars, monitor_vars, http_vars, reload_pc>>

DirDelete ==
    /\ dir.exists
    /\ dir' = [exists |-> FALSE, files |-> NoFiles]
    /\ UNCHANGED <<call_vars, operator_vars, db_monitor, monitor_lock, last_result,
                   result_lock, capture_vars, monitor_vars, http_vars, reload_pc>>

Directory == DirWrite \/ DirRemoveFile \/ DirDelete

NextScan == Monitor \/ Directory

\* the registry plays no part in a scan: one registered face
InitScan == Init /\ next_id = 2

SpecScan == InitScan /\ [][NextScan]_vars

\* The capture loop and the refresh task while the operator edits the
\* registry file.
NextOperator == Capture \/ Monitor \/ Operator

SpecOperator == Init /\ [][NextOperator]_vars

\* The snapshot read of a frame (the loop up to main.rs:89) beside the
\* refresh task, the operator and a task that reloads the registry into the
\* monitor; what the loop does with the snapshot afterwards is left out.
NextReload == CaptureSnapshot \/ Monitor \/ Operator \/ Reload

SpecReload == Init /\ [][NextReload]_vars

(***************************************************************************)
(* A FaceDatabase object on its own (database.rs): loaded, then added to   *)
(* and saved any number of times by its owner, over the registry file.     *)
(***************************************************************************)
program_vars == <<dir, db_monitor, monitor_lock, last_result, result_lock,
                  capture_vars, monitor_vars, http_vars, reload_pc>>

\* database.rs:75-91: FaceDatabase::new(); reading an existing file can fail
RegistryNew ==
    /\ \E loaded \in BOOLEAN :
         /\ ~face_records_json.exists => loaded
         /\ db' = IF loaded
                  THEN [open |-> TRUE, records |-> FaceDatabase_new(face_records_json)]
                  ELSE db
         /\ db_call' = [op |-> "new", ok |-> loaded, record |-> NoRecord,
                        before |-> db.records, file_before |-> face_records_json,
                        save_called |-> FALSE, report |-> ""]
    /\ UNCHANGED <<operator_vars, program_vars, lib_call, call_faces, call_result, cli, acked>>

\* database.rs:106-109: add_record(FaceRecord::new(name, photo_path))
RegistryAdd ==
    /\ db.open
    /\ next_id <= NumRecords
    /\ \E write_ok \in BOOLEAN :
         LET r == add_record(db.records, FaceRecord(next_id), face_records_json,
                             write_ok)
         IN  /\ db' = [db EXCEPT !.records = r.records]
             /\ face_records_json' = r.file
             /\ db_call' = [op |-> "add", ok |-> r.ok, record |-> FaceRecord(next_id),
                            before |-> db.records,
                            file_before |-> face_records_json,
                            save_called |-> TRUE, report |-> ""]
    /\ next_id' = next_id + 1
    /\ UNCHANGED <<program_vars, lib_call, call_faces, call_result, cli, acked>>

\* database.rs:121-128: save()
RegistrySave ==
    /\ db.open
    /\ \E write_ok \in BOOLEAN :
         /\ face_records_json' = IF write_ok THEN FaceDatabase_save(db.records)
                                  ELSE face_records_json
         /\ db_call' = [op |-> "save", ok |-> write_ok, record |-> NoRecord,
                        before |-> db.records, file_before |-> face_records_json,
                        save_called |-> TRUE, report |-> ""]
    /\ UNCHANGED <<next_id, db, program_vars, lib_call, call_faces, call_result, cli, acked>>

\* bin/cli.rs:114-125: the Remove command: FaceDatabase::new()?, then
\* remove on the loaded registry.  before is the registry as loaded; the
\* command's object is gone when save()? returns the error out of main.
RegistryRemove ==
    /\ \E id \in RecordIds, loaded \in BOOLEAN, write_ok \in BOOLEAN :
         /\ ~face_records_json.exists => loaded
         /\ IF loaded
            THEN LET records == FaceDatabase_new(face_records_json)
                     r == remove(records, id, face_records_json, write_ok)
                 IN  /\ db' = IF r.ok THEN [open |-> TRUE, records |-> r.records]
                              ELSE NoDatabase
                     /\ face_records_json' = r.file
                     /\ db_call' = [op |-> "remove", ok |-> r.ok,
                                    record |-> [NoRecord EXCEPT !.id = id],
                                    before |-> records,
                                    file_before |-> face_records_json,
                                    save_called |-> r.save_called,
                                    report |-> r.report]
            ELSE /\ db_call' = [op |-> "remove", ok |-> FALSE,
                                record |-> [NoRecord EXCEPT !.id = id],
                                before |-> db.records,
                                file_before |-> face_records_json,
                                save_called |-> FALSE, report |-> ""]
                 /\ UNCHANGED <<db, face_records_json>>
    /\ UNCHANGED <<next_id, program_vars, lib_call, call_faces, call_result, cli, acked>>

NextRegistry == RegistryNew \/ RegistryAdd \/ RegistrySave \/ RegistryRemove

SpecRegistry == Init /\ [][NextRegistry]_vars

(***************************************************************************)
(* Operator commands as processes (bin/cli.rs): each loads the registry    *)
(* file, changes its copy and saves it; several can run at a time.         *)
(***************************************************************************)
\* cli.rs:95-96: FaceDatabase::new()?, FaceRecord::new(name, destination)
CliAddLoad(p) ==
    /\ cli[p].pc = "idle"
    /\ next_id <= NumRecords
    /\ cli' = [cli EXCEPT ![p] = [pc |-> "loaded", cmd |-> "add",
                                   record |-> FaceRecord(next_id),
                                   records |-> FaceDatabase_new(face_records_json)]]
    /\ next_id' = next_id + 1
    /\ UNCHANGED <<face_records_json, program_vars, lib_call, call_faces, call_result, db,
                   db_call, acked>>

\* cli.rs:97-98: face_db.add_record(record)?, then "Successfully added"
CliAddSave(p) ==
    /\ cli[p].pc = "loaded" /\ cli[p].cmd = "add"
    /\ \E write_ok \in BOOLEAN :
         LET r == add_record(cli[p].records, cli[p].record, face_records_json,
                             write_ok)
         IN  /\ face_records_json' = r.file
             /\ acked' = IF r.ok THEN acked \cup {cli[p].record.id} ELSE acked
    /\ cli' = [cli EXCEPT ![p] = NoCommand]
    /\ UNCHANGED <<next_id, program_vars, lib_call, call_faces, call_result, db, db_call>>

\* cli.rs:115-117, 122-123: FaceDatabase::new()?, retain; nothing to save
\* when no record has the id
CliRemoveLoad(p) ==
    /\ cli[p].pc = "idle"
    /\ \E id \in RecordIds :
         LET records == FaceDatabase_new(face_records_json)
             kept == retain(records, id)
         IN  cli' = [cli EXCEPT ![p] =
                        IF Len(kept) < Len(records)
                        THEN [pc |-> "loaded", cmd |-> "remove",
                              record |-> [NoRecord EXCEPT !.id = id],
                              records |-> kept]
                        ELSE NoCommand]
    /\ UNCHANGED <<operator_vars, program_vars, lib_call, call_faces, call_result, db,
                   db_call, acked>>

\* cli.rs:119-121: face_db.save()?, then "Successfully removed"
CliRemoveSave(p) ==
    /\ cli[p].pc = "loaded" /\ cli[p].cmd = "remove"
    /\ \E write_ok \in BOOLEAN :
         /\ face_records_json' = IF write_ok THEN FaceDatabase_save(cli[p].records)
                                  ELSE face_records_json
         /\ acked' = IF write_ok THEN acked \ {cli[p].record.id} ELSE acked
    /\ cli' = [cli EXCEPT ![p] = NoCommand]
    /\ UNCHANGED <<next_id, program_vars, lib_call, call_faces, call_result, db, db_call>>

NextCli == \E p \in Clis : \/ CliAddLoad(p) \/ CliAddSave(p)
                           \/ CliRemoveLoad(p) \/ CliRemoveSave(p)

SpecCli == Init /\ [][NextCli]_vars

(***************************************************************************)
(* recognize_face on its own: every list of regions against every          *)
(* registry (records in any order) and every state of the photos.          *)
(***************************************************************************)
RECURSIVE Orderings(_)
\* the lists that hold each element of S once
Orderings(S) ==
    IF S = {} THEN {<<>>}
    ELSE UNION {{Append(seq, x) : seq \in Orderings(S \ {x})} : x \in S}

Registries == UNION {Orderings({FaceRecord(id) : id \in S}) : S \in SUBSET RecordIds}
RegionLists == UNION {[1..n -> Regions] : n \in 0..MaxFaces}

InitRecognize ==
    /\ ProgramInit
    /\ call_faces \in RegionLists
    /\ call_result = NoOutcome
    /\ PartsInit

\* main.rs:152-201 called once: on regions, with the snapshot face_db
RecognizeCall ==
    /\ call_result = NoOutcome
    /\ \E registry \in Registries : \E disk \in DisksFor(registry) :
         /\ face_db' = registry
         /\ call_result' = recognize_face(call_faces, registry, disk)
    /\ UNCHANGED <<operator_vars, dir, db_monitor, monitor_lock, last_result,
                   result_lock, capture_pc, faces, recognized, iter, monitor_vars,
                   http_vars, reload_pc, call_faces, db, db_call, cli, acked,
                   lib_call>>

SpecRecognize == InitRecognize /\ [][RecognizeCall]_vars

(***************************************************************************)
(* The pure functions of the library, each called once on arguments drawn  *)
(* at the start: compare_faces on two feature vectors, detect_faces on an  *)
(* image.                                                                  *)
(***************************************************************************)
InitLibrary ==
    /\ ProgramInit /\ next_id = 2
    /\ call_faces = <<>> /\ call_result = NoOutcome
    /\ db = NoDatabase /\ db_call = NoCall
    /\ cli = [p \in Clis |-> NoCommand] /\ acked = {}
    /\ \/ \E features1 \in FeatureVectors, features2 \in FeatureVectors :
             lib_call = LibCall("compare_faces", <<features1, features2>>)
       \/ \E image \in Images : lib_call = LibCall("detect_faces", <<image>>)

\* face_recognition.rs:162-187
CompareCall ==
    /\ lib_call.fn = "compare_faces" /\ ~lib_call.returned
    /\ lib_call' = [lib_call EXCEPT
                       !.returned = TRUE,
                       !.result = compare_faces(lib_call.args[1], lib_call.args[2])]
    /\ UNCHANGED <<operator_vars, program_vars, call_faces, call_result, db,
                   db_call, cli, acked>>

\* processors/face_detector.rs:14-66
DetectCall ==
    /\ lib_call.fn = "detect_faces" /\ ~lib_call.returned
    /\ lib_call' = [lib_call EXCEPT !.returned = TRUE,
                                    !.result = detect_faces(lib_call.args[1])]
    /\ UNCHANGED <<operator_vars, program_vars, call_faces, call_result, db,
                   db_call, cli, acked>>

NextLibrary == CompareCall \/ DetectCall

SpecLibrary == InitLibrary /\ [][NextLibrary]_vars

(***************************************************************************)
(* Properties of the program (Spec).                                       *)
(***************************************************************************)
\* the refresh task holds the write guard of db_monitor for a scan
ScanInProgress == monitor_pc \in {"scan", "scanned"}

\* C1: whatever a reader of the decision cell observes -- the response a
\* status request cloned, or the cell itself whenever no writer holds its
\* lock -- has a name only if recognized is true.
C1_NameOnlyWhenRecognized ==
    /\ \A h \in Handlers :
         http_pc[h] = "reply" => (http_resp[h].name # NoName => http_resp[h].recognized)
    /\ result_lock.writer = Nobody =>
         (last_result.name # NoName => last_result.recognized)

\* C1 witness: a status request waits for the cell while the capture loop,
\* half-way through storing a match over a no-match decision, has set the
\* name and not yet the flag
C1_Witness ==
    \E h \in Handlers :
        /\ http_pc[h] = "wait"
        /\ capture_pc = "write_recognized"
        /\ last_result = [name |-> AuthorizedUser, recognized |-> FALSE]

\* C3 as claimed: a snapshot read that has been requested is never kept
\* waiting by a scan in progress.
C3_ReadNeverWaitsForScan ==
    (capture_pc = "get_db_wait" /\ ScanInProgress)
        => CanAcquire(monitor_lock, CaptureTask)

\* C3 amended: the snapshot read never overlaps a scan; a requested read is
\* kept waiting exactly while the refresh task holds the write guard for a
\* scan or is queued for it ahead of the read, and can complete otherwise.
C3_ReadWaitsOnlyForScan ==
    /\ ScanInProgress => capture_pc # "clone"
    /\ capture_pc = "get_db_wait" =>
         (CanAcquire(monitor_lock, CaptureTask) <=>
            ~(\/ ScanInProgress
              \/ monitor_pc = "wait" /\ Head(monitor_lock.queue).task = MonitorTask))

\* C3 witness: the capture loop waits for its read guard during a scan
C3_Witness == capture_pc = "get_db_wait" /\ monitor_pc = "scan"

\* C6: once a match has been stored, the name in the decision cell is the
\* name of the registry entry that recognize_face matched.
C6_DecisionNamesMatchedEntry ==
    (capture_pc \in {"archive", "sleep"} /\ recognized.res = "true") =>
        last_result.name = face_db[recognized.matched[2]].name

\* C7: a region whose feature extraction fails is skipped: recognize_face
\* does not fail on it and the loop is not ended by it.
C7_BadRegionSkipped ==
    /\ recognized.error # "region"
    /\ ~(capture_pc = "exited" /\ iter.failed = "recognize_face"
                               /\ recognized.error = "region")

\* C8: a frame on which detect_faces fails is skipped and the loop goes on:
\* the loop is never ended by a detection error.
C8_DetectionErrorSkipsFrame ==
    ~(capture_pc = "exited" /\ iter.failed = "detect_faces")

\* C9: a failed lock or unlock action does not stop the loop.
C9_ActionFailureKeepsLoop ==
    ~(capture_pc = "exited" /\ iter.failed = "lock_screen")

\* C10: an iteration in which faces were located and recognition completed
\* ends with exactly one action issued and then exactly one decision write:
\* unlock and {name set, recognized} on a match, lock and {none, not
\* recognized} otherwise.
C10_OneActionThenOneWrite ==
    (capture_pc \in {"sleep", "exited"} /\ recognized.res \in {"true", "false"}) =>
        /\ iter.writes = 1
        /\ recognized.res = "true" =>
             iter.actions = <<"unlock">> /\ last_result = MatchDecision
        /\ recognized.res = "false" =>
             iter.actions = <<"lock">> /\ last_result = NoMatchDecision

(***************************************************************************)
(* Properties of the program beside a working operator (SpecOperator).     *)
(***************************************************************************)
\* the recognition pass of a frame: from the cloned snapshot to the decision
InPass == capture_pc \in {"detect", "save_frame", "recognize", "unlock", "lock",
                          "write", "write_wait", "write_name", "write_recognized"}

\* C2: the snapshot cloned for a frame holds every update that was
\* persisted before the frame was read (if the file has not changed since,
\* the snapshot is the persisted registry), and no step changes the snapshot
\* while the recognition pass of that frame is under way.
C2_NextFrameUsesPersistedRegistry ==
    [][/\ (capture_pc = "detect" /\ iter.file_at_read = face_records_json) =>
            face_db = FaceDatabase_new(face_records_json)
       /\ (InPass /\ capture_pc' # "exited") => face_db' = face_db]_vars

(***************************************************************************)
(* Properties of the snapshot read beside scans and reloads (SpecReload).  *)
(***************************************************************************)
\* C4: however the snapshot read interleaves with scans and reloads, the
\* registry of the monitor does not change while the capture loop clones
\* it, and the finished clone is that one complete list.
C4_SnapshotIsOneCompleteList ==
    [][/\ capture_pc = "clone" => db_monitor'.face_db = db_monitor.face_db
       /\ (capture_pc = "clone" /\ capture_pc' = "detect") =>
            face_db' = db_monitor.face_db]_vars

\* C4 witness: the clone is part-way through a registry that a waiting
\* reload is about to replace, with the refresh task waiting to scan too
C4_Witness ==
    /\ capture_pc = "clone"
    /\ face_db # <<>> /\ Len(face_db) < Len(db_monitor.face_db)
    /\ reload_pc = "wait" /\ monitor_pc = "wait"
    /\ FaceDatabase_new(face_records_json) # db_monitor.face_db

(***************************************************************************)
(* Properties of recognize_face (SpecRecognize).                           *)
(***************************************************************************)
\* the similarity of region i and the reference photo of record j
Sim(i, j) == compare_faces(call_faces[i].hist, HistOf(face_db[j].photo_path))
\* strictly greater than 0.7
Clears07(s) == s.dot > 0 /\ 100 * s.dot * s.dot > 49 * s.norm1 * s.norm2
\* pair p comes before pair q in the scan: regions first, then records
Before(p, q) == p[1] < q[1] \/ (p[1] = q[1] /\ p[2] < q[2])
Range(seq) == {seq[k] : k \in DOMAIN seq}

\* C5: the pairs are visited in scan order; a reported match is the first
\* pair whose photo is there and whose similarity is above 0.7: every
\* earlier pair was examined and did not clear the threshold, the matched
\* pair is the last one compared and no later pair was touched; and when
\* the call returns false no compared pair cleared the threshold and every
\* pair was examined.
C5_FirstMatchWins ==
    LET m == call_result.matched
        all == (1..Len(call_faces)) \X (1..Len(face_db))
        examined(p) == \E st \in PhotoStates : <<p[1], p[2], st>> \in Range(call_result.probed)
    IN  /\ \A k, l \in DOMAIN call_result.probed :
              k < l => Before(call_result.probed[k], call_result.probed[l])
        /\ call_result.res = "true" =>
              /\ m \in all
              /\ <<m[1], m[2], "ok">> \in Range(call_result.probed)
              /\ Clears07(Sim(m[1], m[2]))
              /\ call_result.compared[Len(call_result.compared)] = m
              /\ \A p \in all :
                    /\ Before(p, m) =>
                          /\ examined(p)
                          /\ <<p[1], p[2], "ok">> \in Range(call_result.probed) =>
                                p \in Range(call_result.compared) /\ ~Clears07(Sim(p[1], p[2]))
                    /\ Before(m, p) => ~examined(p) /\ p \notin Range(call_result.compared)
        /\ call_result.res = "false" =>
              /\ \A p \in Range(call_result.compared) : ~Clears07(Sim(p[1], p[2]))
              /\ face_db # <<>> => \A p \in all : examined(p)

\* C5 witness: a match is reported for an entry although a later entry of
\* the registry, with its photo in place, scores higher for the same region
C5_Witness ==
    /\ call_result.res = "true"
    /\ \E j \in 1..Len(face_db) :
          /\ j > call_result.matched[2]
          /\ Higher(Sim(call_result.matched[1], j),
                    Sim(call_result.matched[1], call_result.matched[2]))

(***************************************************************************)
(* Properties of the capture loop and the status endpoint (Spec).          *)
(***************************************************************************)
\* the capture task has asked for, or holds, the guard of the registry
CaptureAtRegistry ==
    \/ CaptureTask \in monitor_lock.readers
    \/ \E k \in DOMAIN monitor_lock.queue : monitor_lock.queue[k].task = CaptureTask

\* C11: an iteration in which detection found no face ends with the
\* decision cell as it was and with no lock or unlock action, no snapshot
\* photo and no archive record.
C11_NoFaceNoEffect ==
    [][(capture_pc' = "sleep" /\ faces' = <<>>) =>
          /\ last_result' = last_result
          /\ iter'.actions = <<>> /\ iter'.writes = 0
          /\ ~iter'.saved_photo /\ ~iter'.archived]_vars

\* C11 witness: no face was found and the decision of an earlier frame stands
C11_Witness ==
    /\ capture_pc = "sleep" /\ faces = <<>>
    /\ last_result = MatchDecision

\* C12: after an empty frame the loop only waits and goes back to reading a
\* frame: it has not read the registry snapshot, run detection or
\* recognition, issued an action or touched the decision cell.
C12_EmptyFrameRetries ==
    [][/\ capture_pc' = "idle" =>
             /\ last_result' = last_result
             /\ iter' = NewIteration /\ recognized' = NoOutcome
             /\ face_db' = <<>> /\ faces' = <<>>
             /\ ~CaptureAtRegistry'
       /\ capture_pc = "idle" => capture_pc' \in {"idle", "read"}]_vars

\* C12 witness: the loop idles on an empty frame while an earlier decision
\* stands
C12_Witness == capture_pc = "idle" /\ last_result = MatchDecision

\* a decision write of the capture task is under way
WriteInProgress == capture_pc \in {"write_name", "write_recognized"}

\* C13: the cell changes only inside a decision write of the capture task,
\* made under the write guard; a status read copies the cell while no write
\* is under way, so its reply is the initial value or the value of the last
\* completed write, whole.
C13_StatusReflectsLastCompletedWrite ==
    [][/\ last_result' # last_result =>
             WriteInProgress /\ result_lock.writer = CaptureTask
       /\ \A h \in Handlers :
             (http_pc[h] = "read" /\ http_pc'[h] = "reply") =>
                /\ ~WriteInProgress /\ result_lock.writer = Nobody
                /\ http_resp'[h] = last_result
                /\ last_result \in {InitialDecision, MatchDecision, NoMatchDecision}]_vars

\* C13 witness: a status request has copied a match decision while the
\* next decision write waits for its guard
C13_Witness ==
    \E h \in Handlers :
        /\ http_pc[h] = "reply" /\ http_resp[h] = MatchDecision
        /\ capture_pc = "write_wait"

(***************************************************************************)
(* Progress of the three tasks for as long as the process runs (SpecFair). *)
(***************************************************************************)
\* C14: every request of the capture task, the refresh task or a status
\* request for the guard of the registry or of the decision cell is granted
\* in the end, for as long as the process runs; so the tasks never deadlock.
C14_LockAttemptsGranted ==
    /\ (capture_pc = "get_db_wait") ~> (capture_pc = "clone")
    /\ (capture_pc = "write_wait") ~> (capture_pc = "write_name")
    /\ (monitor_pc = "wait") ~> (monitor_pc = "scan" \/ ~Running)
    /\ \A h \in Handlers :
          (http_pc[h] = "wait") ~> (http_pc[h] = "read" \/ ~Running)

\* C14 witness: the capture task waits for the write guard of the decision
\* cell while a status request holds its read guard
C14_Witness ==
    /\ capture_pc = "write_wait"
    /\ \E h \in Handlers : http_pc[h] = "read" /\ HttpTask(h) \in result_lock.readers

\* C17: a scan that returned an error is followed by the release of the
\* write guard, the sleep and, for as long as the process runs, the next
\* scan: a failed scan does not end the task.
C17_FailedScanDoesNotEndTask ==
    /\ [][(monitor_pc = "scanned" /\ monitor_pc' # "scanned") =>
             monitor_pc' = "sleep" /\ monitor_lock'.writer = Nobody]_vars
    /\ (monitor_pc = "scanned" /\ ~scan_report.ok) ~> (monitor_pc = "scan" \/ ~Running)

\* C17 witness: a scan has failed while the capture loop waits for the
\* registry
C17_Witness ==
    /\ monitor_pc = "scanned" /\ ~scan_report.ok
    /\ capture_pc = "get_db_wait"

(***************************************************************************)
(* Properties of the scan (SpecScan).                                      *)
(***************************************************************************)
\* the photo files that are in the directory now
Listing(d) == IF d.exists THEN {n \in DOMAIN d.files : IsPhoto(n)} ELSE {}
\* the step on which scan_database runs and returns
ScanStep == monitor_pc = "scan" /\ monitor_pc' = "scanned"

\* C15 as stated: every successful scan reports as added the files that are
\* listed now and were not at the previous successful scan, as removed the
\* files that were and are not, and leaves the stored listing equal to the
\* current one.
C15_ScanReportsDifference ==
    [][(ScanStep /\ scan_report'.ok) =>
          /\ scan_report'.added = Listing(dir) \ DOMAIN db_monitor.photo_files
          /\ scan_report'.removed = DOMAIN db_monitor.photo_files \ Listing(dir)
          /\ DOMAIN db_monitor'.photo_files = Listing(dir)]_vars

\* C15 amended: the same for every successful scan that finds the directory
\* in place, and then the stored listing is the current one with its
\* modification times.
C15_ScanOfExistingDirReportsDifference ==
    [][(ScanStep /\ scan_report'.ok /\ dir.exists) =>
          /\ scan_report'.added = Listing(dir) \ DOMAIN db_monitor.photo_files
          /\ scan_report'.removed = DOMAIN db_monitor.photo_files \ Listing(dir)
          /\ db_monitor'.photo_files = [n \in Listing(dir) |-> dir.files[n]]]_vars

\* C15 witness: after {a.jpg, b.JPEG} the scan finds {b.JPEG, c.jpg}
C15_Witness ==
    /\ monitor_pc = "scanned" /\ scan_report.ok
    /\ scan_report.added = {"c.jpg"} /\ scan_report.removed = {"a.jpg"}
    /\ DOMAIN db_monitor.photo_files = {"b.JPEG", "c.jpg"}

\* C16: a scan that returns an error leaves the stored listing and the
\* registry snapshot as they were.
C16_FailedScanChangesNothing ==
    [][(ScanStep /\ ~scan_report'.ok) => db_monitor' = db_monitor]_vars

\* C16 witness: a scan has failed while the directory no longer holds what
\* the stored listing names
C16_Witness ==
    /\ monitor_pc = "scanned" /\ ~scan_report.ok
    /\ dir.exists /\ Listing(dir) # DOMAIN db_monitor.photo_files
    /\ db_monitor.photo_files # NoFiles

\* C27: a scan that finds no directory creates it, empty, and returns
\* success (unless the creation itself fails, and then nothing is created);
\* it reports nothing as added or removed and leaves the stored listing and
\* the rest of the monitor as they were, so the listing can go on naming
\* files that are gone.
C27_MissingDirectoryCreated ==
    [][(ScanStep /\ ~dir.exists) =>
          IF scan_report'.ok
          THEN /\ dir' = [exists |-> TRUE, files |-> NoFiles]
               /\ scan_report'.added = {} /\ scan_report'.removed = {}
               /\ db_monitor' = db_monitor
          ELSE dir' = dir /\ db_monitor' = db_monitor]_vars

\* a successful scan has just created the directory: it is empty, nothing
\* was reported, and the stored listing still names the initial photos
C27_Witness ==
    /\ monitor_pc = "scanned" /\ scan_report.ok
    /\ dir = [exists |-> TRUE, files |-> NoFiles]
    /\ scan_report.removed = {} /\ scan_report.added = {}
    /\ db_monitor.photo_files = [n \in Listing(InitialDir) |-> InitialDir.files[n]]
    /\ db_monitor.photo_files # NoFiles

\* C28: a successful scan reports a photo that is listed under the same name
\* as before with another modification time as neither added nor removed;
\* it stores the new time, and the registry snapshot is as it was.
C28_ChangedTimeNotReported ==
    [][(ScanStep /\ scan_report'.ok /\ dir.exists) =>
          \A n \in Listing(dir) \cap DOMAIN db_monitor.photo_files :
             db_monitor.photo_files[n] # dir.files[n] =>
                /\ n \notin scan_report'.added
                /\ n \notin scan_report'.removed
                /\ db_monitor'.photo_files[n] = dir.files[n]
                /\ db_monitor'.face_db = db_monitor.face_db]_vars

\* a scan has stored another modification time for a.jpg and reported
\* nothing
C28_Witness ==
    /\ monitor_pc = "scanned" /\ scan_report.ok
    /\ scan_report.added = {} /\ scan_report.removed = {}
    /\ "a.jpg" \in DOMAIN db_monitor.photo_files
    /\ db_monitor.photo_files["a.jpg"] # InitialDir.files["a.jpg"]
    /\ DOMAIN db_monitor.photo_files = Listing(InitialDir)

(***************************************************************************)
(* Properties of the registry (SpecRegistry, SpecCli).                     *)
(***************************************************************************)
\* C18: after an add whose save failed the in-memory registry is what it
\* was before the call: it does not hold the record.
C18_FailedAddLeavesMemory ==
    (db_call.op = "add" /\ ~db_call.ok) => db.records = db_call.before

\* C19: every id whose add was acknowledged, and that no acknowledged
\* remove has named, is in the persisted registry.
C19_AcknowledgedAddPersists ==
    \A id \in acked : id \in IdsOf(FaceDatabase_new(face_records_json))

\* C20: after a successful add a fresh load returns the in-memory list,
\* which is the previously persisted list followed by the added record,
\* field for field; and a load without a file is an empty registry, not an
\* error.
C20_AddThenLoadRoundTrips ==
    /\ (db_call.op = "add" /\ db_call.ok) =>
          /\ FaceDatabase_new(face_records_json) = db.records
          /\ db.records = Append(FaceDatabase_new(db_call.file_before), db_call.record)
    /\ (db_call.op = "new" /\ ~db_call.file_before.exists) =>
          db_call.ok /\ db.open /\ db.records = <<>>

\* C21: the Remove command with an id no record has leaves the registry in
\* memory and on disk as it was, calls no save and reports "No face found";
\* with an id a record has it drops that record and no other, so the
\* registry is shorter by exactly one, persists the result and reports
\* "Successfully removed".
C21_RemoveByIdentifier ==
    (db_call.op = "remove" /\ db_call.ok) =>
        IF db_call.record.id \notin IdsOf(db_call.before)
        THEN /\ db.records = db_call.before
             /\ face_records_json = db_call.file_before
             /\ ~db_call.save_called
             /\ db_call.report = "No face found"
        ELSE /\ db_call.record.id \notin IdsOf(db.records)
             /\ Len(db.records) = Len(db_call.before) - 1
             /\ \A k \in 1..Len(db_call.before) :
                   db_call.before[k].id # db_call.record.id =>
                       \E m \in 1..Len(db.records) : db.records[m] = db_call.before[k]
             /\ db_call.save_called
             /\ face_records_json.exists
             /\ FaceDatabase_new(face_records_json) = db.records
             /\ db_call.report = "Successfully removed"

\* a record is removed from a registry of two; the other one stays
C21_Witness ==
    /\ db_call.op = "remove" /\ db_call.ok
    /\ Len(db_call.before) = 2
    /\ db_call.record.id \in IdsOf(db_call.before)
    /\ Len(db.records) = 1
    /\ db_call.report = "Successfully removed"

(***************************************************************************)
(* Properties of recognize_face called on its own (SpecRecognize).         *)
(***************************************************************************)
\* C22: with an empty registry snapshot recognize_face returns no match for
\* every list of regions, and does so before it extracts a feature vector,
\* looks for a reference photo or compares anything.
C22_EmptyRegistryNoWork ==
    (call_result # NoOutcome /\ face_db = <<>>) =>
        /\ call_result.res = "false"
        /\ call_result.error = "none"
        /\ call_result.extracted = <<>>
        /\ call_result.probed = <<>>
        /\ call_result.compared = <<>>

\* the call has returned for an empty registry and a frame of MaxFaces
\* regions, one of which cannot even be cut out of the frame
C22_Witness ==
    /\ call_result # NoOutcome /\ face_db = <<>>
    /\ Len(call_faces) = MaxFaces
    /\ \E i \in 1..Len(call_faces) : ~call_faces[i].ok
    /\ call_result.res = "false"

\* C23: an entry whose reference photo is missing is skipped without error:
\* it is not compared, a photo error comes from a file that is there and
\* unreadable only, a call that returns no match has gone through every
\* region and every entry and compared each region with each entry whose
\* photo is there, and a match is always with an entry whose photo is there
\* (so no match is returned when every photo is missing).
C23_MissingPhotoSkipped ==
    LET probed == call_result.probed
        compared == Range(call_result.compared)
    IN  call_result # NoOutcome =>
        /\ \A k \in 1..Len(probed) :
              probed[k][3] = "missing" => <<probed[k][1], probed[k][2]>> \notin compared
        /\ call_result.error = "photo" =>
              probed # <<>> /\ probed[Len(probed)][3] = "corrupt"
        /\ (call_result.res = "false" /\ face_db # <<>>) =>
              \A i \in 1..Len(call_faces), j \in 1..Len(face_db) :
                 \/ <<i, j, "missing">> \in Range(probed)
                 \/ <<i, j, "ok">> \in Range(probed) /\ <<i, j>> \in compared
        /\ call_result.res = "true" =>
              <<call_result.matched[1], call_result.matched[2], "ok">> \in Range(probed)

\* a region matched the second entry after the first one, whose photo is
\* missing, was skipped
C23_Witness ==
    /\ call_result.res = "true"
    /\ call_result.matched = <<1, 2>>
    /\ <<1, 1, "missing">> \in Range(call_result.probed)

\* every photo of a registry of two is missing: both regions went through
\* both entries, nothing was compared and no match is returned
C23_AllMissingWitness ==
    /\ call_result.res = "false"
    /\ Len(face_db) = 2 /\ Len(call_faces) = 2
    /\ Len(call_result.probed) = 4
    /\ call_result.compared = <<>>

\* C24: a failure to write the customer-photo record after a match does not
\* end the process: the iteration is then at its sleep with the decision
\* {AuthorizedUser, recognized: true} it wrote still in place, nothing has
\* failed, and the next iteration can begin.
C24_ArchiveFailureNotFatal ==
    /\ iter.failed # "save_customer_photo"
    /\ (capture_pc = "sleep" /\ recognized.res = "true" /\ ~iter.archived) =>
          /\ last_result = MatchDecision
          /\ last_result.recognized
          /\ iter.writes = 1
          /\ iter.failed = "none"
          /\ ENABLED CaptureSleep

\* a match was decided and written, and the archive write failed
C24_Witness ==
    /\ capture_pc = "sleep"
    /\ recognized.res = "true"
    /\ ~iter.archived
    /\ last_result = MatchDecision

\* task holds a guard of lock
Holds(lock, task) == task \in lock.readers \/ lock.writer = task

\* C26: no guard is held across a sleep, detection, recognition or a screen
\* action.  The capture loop holds the registry lock as a reader while it
\* clones and at no other point, and the decision lock as the writer while
\* it assigns the two fields and at no other point; the refresh task holds
\* the registry lock as the writer during its scan only, so not in its
\* sleep; a status handler holds the decision lock only while it clones.
\* No task ever holds the other lock.
C26_NoGuardAcrossSlowSteps ==
    /\ Holds(monitor_lock, CaptureTask) =>
          capture_pc = "clone" /\ monitor_lock.writer # CaptureTask
    /\ Holds(result_lock, CaptureTask) =>
          /\ capture_pc \in {"write_name", "write_recognized"}
          /\ result_lock.writer = CaptureTask
    /\ capture_pc \in {"read", "idle", "detect", "save_frame", "recognize", "unlock",
                        "lock", "archive", "sleep", "exited"} =>
          ~Holds(monitor_lock, CaptureTask) /\ ~Holds(result_lock, CaptureTask)
    /\ Holds(monitor_lock, MonitorTask) =>
          monitor_pc \in {"scan", "scanned"} /\ monitor_lock.writer = MonitorTask
    /\ monitor_pc = "sleep" => ~Holds(monitor_lock, MonitorTask)
    /\ ~Holds(result_lock, MonitorTask)
    /\ \A h \in Handlers :
          /\ Holds(result_lock, HttpTask(h)) => http_pc[h] = "read"
          /\ ~Holds(monitor_lock, HttpTask(h))

\* the capture loop is in recognition while the refresh task, holding the
\* registry lock as the writer, scans
C26_Witness ==
    /\ capture_pc = "recognize"
    /\ monitor_pc = "scan"
    /\ monitor_lock.writer = MonitorTask

\* where the record with this id is in the list (0: nowhere)
PositionOf(records, id) ==
    IF id \in IdsOf(records)
    THEN CHOOSE k \in 1..Len(records) : records[k].id = id
    ELSE 0

\* after holds records of before only, in the order they have in before
InSameOrder(after, before) ==
    /\ \A k \in 1..Len(after) :
          /\ PositionOf(before, after[k].id) > 0
          /\ before[PositionOf(before, after[k].id)] = after[k]
    /\ \A k, m \in 1..Len(after) :
          k < m => PositionOf(before, after[k].id) < PositionOf(before, after[m].id)

\* add appends, remove keeps the others in their order, and what a save
\* wrote loads as the list in memory, in the same order
OrderKept ==
    /\ db_call.op = "add" => db.records = Append(db_call.before, db_call.record)
    /\ (db_call.op = "remove" /\ db_call.ok) =>
          /\ InSameOrder(db.records, db_call.before)
          /\ Len(db.records) >= Len(db_call.before) - 1
    /\ (db_call.op \in {"add", "save", "remove"} /\ db_call.ok /\ db_call.save_called) =>
          FaceDatabase_new(face_records_json) = db.records

\* the last call added a record, or removed one the registry held
EntryChanged ==
    \/ db_call.op = "add"
    \/ /\ db_call.op = "remove" /\ db_call.ok
       /\ db_call.record.id \in IdsOf(db_call.before)

\* the match o1 found in the registry before the call is with an entry
\* that comes before the one the call added or removed
EarlierMatch(o1) ==
    /\ o1.res = "true"
    /\ db_call.op = "remove" =>
          PositionOf(db_call.before, db_call.record.id) > o1.matched[2]

\* o2 reports the same region and the same entry as o1
SameMatch(o1, o2) ==
    /\ o2.res = "true"
    /\ o2.matched[1] = o1.matched[1]
    /\ db.records[o2.matched[2]] = db_call.before[o1.matched[2]]

PhotoDisks == [RecordIds -> PhotoStates]

\* C29 as stated: the order is kept by add, remove and save followed by
\* load, and for every frame the match reported with the registry as it was
\* is the match reported after a later entry was added or removed.
C29_FirstMatchUnchangedByLaterEntry ==
    /\ OrderKept
    /\ EntryChanged =>
          \A regions \in RegionLists, disk \in PhotoDisks :
             LET o1 == recognize_face(regions, db_call.before, disk)
                 o2 == recognize_face(regions, db.records, disk)
             IN  EarlierMatch(o1) => SameMatch(o1, o2)

\* C29 amended: the order is kept by add, remove and save followed by load;
\* the match reported for a frame is unchanged by the removal of a later
\* entry, and by the addition of an entry unless a region that comes before
\* the matched one reaches the added entry, where the search then ends.
C29_FirstMatchUnchangedUnlessEarlierRegion ==
    /\ OrderKept
    /\ EntryChanged =>
          \A regions \in RegionLists, disk \in PhotoDisks :
             LET o1 == recognize_face(regions, db_call.before, disk)
                 o2 == recognize_face(regions, db.records, disk)
                 last == o2.probed[Len(o2.probed)]
             IN  EarlierMatch(o1) =>
                    \/ SameMatch(o1, o2)
                    \/ /\ db_call.op = "add"
                       /\ o2.probed # <<>>
                       /\ last[1] < o1.matched[1]
                       /\ last[2] = Len(db.records)
                       /\ last[3] # "missing"

\* the second of three records was removed: the first and the third stay,
\* in that order, in memory and in the file
C29_Witness ==
    /\ db_call.op = "remove" /\ db_call.ok
    /\ Len(db_call.before) = 3
    /\ db_call.record.id = db_call.before[2].id
    /\ db.records = <<db_call.before[1], db_call.before[3]>>
    /\ FaceDatabase_new(face_records_json) = db.records

\* a record was added after another one, which a frame of two regions
\* matched with its second region
C29_AddWitness ==
    /\ db_call.op = "add" /\ db_call.ok
    /\ Len(db_call.before) = 1
    /\ \E regions \in RegionLists, disk \in PhotoDisks :
          recognize_face(regions, db_call.before, disk).matched = <<2, 1>>

(***************************************************************************)
(* Properties of the library functions (SpecLibrary).                      *)
(***************************************************************************)
\* every component of the vector is zero (so is its magnitude)
ZeroMagnitude(features) == \A i \in 1..Len(features) : features[i] = 0

\* C25: compare_faces returns for every pair of vectors, with a value that
\* is defined (no division by a zero magnitude), and returns exactly 0.0
\* when the lengths differ or one of the vectors has zero magnitude, two
\* empty vectors included.
C25_DegenerateSimilarityIsZero ==
    (lib_call.fn = "compare_faces" /\ lib_call.returned) =>
        LET features1 == lib_call.args[1]
            features2 == lib_call.args[2]
        IN  /\ lib_call.result.norm1 > 0 /\ lib_call.result.norm2 > 0
            /\ ( \/ Len(features1) # Len(features2)
                 \/ ZeroMagnitude(features1)
                 \/ ZeroMagnitude(features2) ) =>
                    lib_call.result = ZeroSimilarity

\* compare_faces has returned for two empty vectors
C25_Witness ==
    /\ lib_call.fn = "compare_faces" /\ lib_call.returned
    /\ lib_call.args = << <<>>, <<>> >>
    /\ lib_call.result = ZeroSimilarity

\* compare_faces has returned for a zero vector and a vector of the same
\* length that is not zero
C25_ZeroVectorWitness ==
    /\ lib_call.fn = "compare_faces" /\ lib_call.returned
    /\ lib_call.args = << <<0, 0>>, <<1, -1>> >>
    /\ lib_call.result = ZeroSimilarity

\* C30: detect_faces returns its list without panicking for every image,
\* the images whose larger side is below 20 pixels included, and every
\* bounding box it returns lies inside the image and has more than 0.3 of
\* its pixels skin-coloured.
C30_DetectFacesTotalAndInside ==
    (lib_call.fn = "detect_faces" /\ lib_call.returned) =>
        LET image == lib_call.args[1]
            detections == lib_call.result.detections
        IN  /\ ~lib_call.result.panicked
            /\ \A k \in 1..Len(detections) :
                  LET box == detections[k].bounding_box
                  IN  /\ box[1] + box[3] <= image.width
                      /\ box[2] + box[4] <= image.height
                      /\ 10 * detections[k].skin > 3 * detections[k].total

====
